---- MODULE Spec2Model ----
(***************************************************************************)
(* Medster agent control loop (src/src/medster/agent.py, Agent.run) as a   *)
(* state machine.  The LLM backend and the tools are the environment:      *)
(* every reply, every tool result and every call duration is chosen        *)
(* nondeterministically.                                                   *)
(***************************************************************************)
EXTENDS Integers, Naturals, Sequences, FiniteSets, TLC

\* ---------------------------------------------------------------- bounds
\* Agent.__init__ parameters, instantiated small
max_steps == 3
max_steps_per_task == 2
max_retries_on_no_data == 1
\* longest plan the planner returns, most tool calls in one reply,
\* number of distinct argument values
MaxTasks == 2
MaxCalls == 2
MaxArg == 1
\* number of outputs that fit the context window
ContextBudget == 2

\* ------------------------------------------------------ program constants
max_agent_errors == 3
RingSize == 4

\* ---------------------------------------------------------------- domains
RegisteredTool == "list_patients"
UnknownTool == "ghost_tool"
ToolNames == {RegisteredTool, UnknownTool}
TOOLS == {RegisteredTool}
Args == 1..MaxArg
ToolCalls == [name : {RegisteredTool}, args : Args] \cup [name : {UnknownTool}, args : {1}]
Replies == UNION {[1..n -> ToolCalls] : n \in 1..MaxCalls}
None == <<>>
\* the per-task count of RetryContexts saturates one above the budget
RetryCap == max_retries_on_no_data + 1

VARIABLES
    pc,                 \* position in Agent.run
    tasks,              \* the plan: sequence of [id, description, done]
    cur,                \* index of `task` (0 before the first pick)
    step_count,
    per_task_steps,
    retry_count,
    retry_context,      \* None or <<tool_name, tool_args, result>>
    agent_error_count,
    last_actions,       \* ring of action signatures
    action_tasks,       \* for each entry of the ring, the task it was issued for
    task_outputs,       \* session history
    task_step_outputs,  \* per-task history
    all_session_outputs,  \* the history handed to the last ask_for_actions
    tool_calls,         \* tool calls of the current reply still to process
    timed_out,          \* time.time() - task_start_time > task_timeout_seconds
    skip_arg_optimization,  \* model_capability.skip_arg_optimization:
                            \* "absent" when the record has no such
                            \* attribute, else "true" or "false"
    plan_failed,        \* plan_tasks took its except branch
    retry_contexts,     \* per task: RetryContexts created over the run
    ev                  \* the latest line written to the log

vars == <<pc, tasks, cur, step_count, per_task_steps, retry_count,
          retry_context, agent_error_count, last_actions, action_tasks,
          task_outputs, task_step_outputs, all_session_outputs, tool_calls,
          timed_out, skip_arg_optimization, plan_failed, retry_contexts, ev>>

\* ---------------------------------------------------------------- helpers
Min(a, b) == IF a < b THEN a ELSE b

Task(i, d, dn) == [id |-> i, description |-> d, done |-> dn]

\* any(not t.done for t in tasks)
AnyNotDone(ts) == \E i \in 1..Len(ts) : ~ts[i].done

\* mutant: the last task that is not done is picked
FirstNotDone_Mut(ts) ==
    CHOOSE i \in 1..Len(ts) : ~ts[i].done /\ \A j \in (i + 1)..Len(ts) : ts[j].done

\* next(t for t in tasks if not t.done)
FirstNotDone(ts) ==
    CHOOSE i \in 1..Len(ts) : ~ts[i].done /\ \A j \in 1..(i - 1) : ts[j].done

\* task.done = True
MarkDone(ts, i) == [ts EXCEPT ![i].done = TRUE]

\* mutant: the validator's answer is assigned to the flag
ApplyValidation_Mut(ts, i, resp) == [ts EXCEPT ![i].done = resp]

\* if self.ask_if_done(...): task.done = True
ApplyValidation(ts, i, resp) == IF resp THEN MarkDone(ts, i) ELSE ts

\* action_sig = f"{tool_name}:{optimized_args}"
ActionSig(name, args) == <<name, args>>

\* last_actions.append(sig); if len > 4: last_actions = last_actions[-4:]
PushAction(ring, sig) ==
    LET r == Append(ring, sig)
    IN IF Len(r) > RingSize THEN SubSeq(r, Len(r) - RingSize + 1, Len(r)) ELSE r

\* mutant: the length test is off by one, the trimmed ring never passes it
LoopDetected_Mut(ring) ==
    /\ Cardinality({ring[i] : i \in 1..Len(ring)}) = 1
    /\ Len(ring) > RingSize

\* len(set(last_actions)) == 1 and len(last_actions) == 4
LoopDetected(ring) ==
    /\ Cardinality({ring[i] : i \in 1..Len(ring)}) = 1
    /\ Len(ring) = RingSize

\* mutant: the budget test admits one retry too many
ShouldRetry_Mut(result, rc) == result = "empty" /\ rc <= max_retries_on_no_data

\* self._is_result_empty(result) and retry_count < self.max_retries_on_no_data
ShouldRetry(result, rc) == result = "empty" /\ rc < max_retries_on_no_data

\* retry_context = {'tool_name': ..., 'tool_args': ..., 'result': ...}
RetryContext(name, args, result) == <<name, args, result>>

\* format_output_for_context(tool_name, optimized_args, result)
FormatOutput(name, args, result) == [kind |-> result, tool |-> name, args |-> args]

\* f"Error from {tool_name} with args {optimized_args}: {e}"
ErrorOutput(name, args) == [kind |-> "error", tool |-> name, args |-> args]

\* mutant: the error is logged but not recorded
RecordError_Mut(outs, name, args) == outs

\* task_outputs.append(error_output); task_step_outputs.append(error_output)
RecordError(outs, name, args) == Append(outs, ErrorOutput(name, args))

\* mutant: the retried result is recorded as well
RecordOutput_Mut(outs, name, args, result, rc) ==
    Append(outs, [kind |-> result, tool |-> name, args |-> args])

\* effect of a tool result that did not raise on a history list:
\* the retry branch leaves by `continue` before the appends
RecordOutput(outs, name, args, result, rc) ==
    IF ShouldRetry(result, rc) THEN outs
    ELSE Append(outs, FormatOutput(name, args, result))

\* mutant: the reset after use is missing
ConsumeContext_Mut(ctx) == ctx

\* retry_context = None, right after ask_for_actions returned
ConsumeContext(ctx) == None

\* manage_context_size(outputs): a list that fits the budget is handed on
\* whole; of a longer one the newest entries are kept and the older ones are
\* dropped or replaced by one summary line
Summary == [kind |-> "summary", tool |-> "none", args |-> 0]
ManageContextSize(outputs) ==
    LET n == Len(outputs) IN
    IF n <= ContextBudget THEN {outputs}
    ELSE {SubSeq(outputs, n - ContextBudget + 1, n),
          <<Summary>> \o SubSeq(outputs, n - ContextBudget + 2, n)}

\* a blocking call (LLM or tool) may take the task past its deadline
Elapse(t) == {t, TRUE}

\* ------------------------------------------------------------------- Init
Init ==
    /\ pc = "plan"
    /\ tasks = <<>>
    /\ cur = 0
    /\ step_count = 0
    /\ per_task_steps = 0
    /\ retry_count = 0
    /\ retry_context = None
    /\ agent_error_count = 0
    /\ last_actions = <<>>
    /\ action_tasks = <<>>
    /\ task_outputs = <<>>
    /\ task_step_outputs = <<>>
    /\ all_session_outputs = <<>>
    /\ tool_calls = <<>>
    /\ timed_out = FALSE
    /\ skip_arg_optimization \in {"absent", "true", "false"}
    /\ plan_failed = FALSE
    /\ retry_contexts = [i \in 1..MaxTasks |-> 0]
    /\ ev = "init"

loop_unchanged == <<step_count, per_task_steps, retry_count, retry_context,
                    agent_error_count, last_actions, action_tasks,
                    task_outputs, task_step_outputs, all_session_outputs,
                    tool_calls, timed_out, skip_arg_optimization,
                    retry_contexts>>

\* the query handed to run
Query == "query"

\* plan_tasks, except branch: a single task that is the query itself
FallbackPlan_Mut(query) == <<Task(1, query, TRUE)>>
FallbackPlan(query) == <<Task(1, query, FALSE)>>

\* run: an empty plan goes straight to _generate_answer
AfterPlan_Mut(ts) == "outer"
AfterPlan(ts) == IF ts = <<>> THEN "answer" ELSE "outer"

\* if agent_error_count >= max_agent_errors
AgentErrorsExhausted_Mut(n) == n > max_agent_errors
AgentErrorsExhausted(n) == n >= max_agent_errors

\* `task.done and ...`: the goal validator is only called for a done task
GoalConsulted_Mut(ts, i) == TRUE
GoalConsulted(ts, i) == ts[i].done

\* ---------------------------------------------------------------- actions
\* plan_tasks: the planner's list, or the single fallback task on failure
PlanTasks ==
    /\ pc = "plan"
    /\ \/ \E n \in 0..MaxTasks : \E dn \in [1..n -> BOOLEAN] :
            /\ tasks' = [i \in 1..n |-> Task(i, "planned", dn[i])]
            /\ plan_failed' = FALSE
       \/ /\ tasks' = FallbackPlan(Query)
          /\ plan_failed' = TRUE
    /\ pc' = AfterPlan(tasks')
    /\ ev' = "task_list"
    /\ UNCHANGED <<cur, loop_unchanged>>

\* while any(not t.done ...): exits of the task loop
TaskLoopExit ==
    /\ pc = "outer"
    /\ ~AnyNotDone(tasks) \/ step_count >= max_steps
    /\ pc' = "answer"
    /\ ev' = IF AnyNotDone(tasks) THEN "global_max_steps" ELSE ev
    /\ UNCHANGED <<tasks, cur, plan_failed, loop_unchanged>>

\* task = next(not done); reset of the per-task locals
StartTask ==
    /\ pc = "outer"
    /\ AnyNotDone(tasks)
    /\ step_count < max_steps
    /\ cur' = FirstNotDone(tasks)
    /\ per_task_steps' = 0
    /\ task_step_outputs' = <<>>
    /\ retry_count' = 0
    /\ retry_context' = None
    /\ timed_out' = FALSE
    /\ agent_error_count' = 0
    /\ pc' = "inner"
    /\ ev' = "task_start"
    /\ UNCHANGED <<tasks, step_count, last_actions, action_tasks,
                   task_outputs, all_session_outputs, tool_calls,
                   skip_arg_optimization, plan_failed, retry_contexts>>

\* while per_task_steps < max_steps_per_task / timeout check / step budget
InnerLoopExit ==
    /\ pc = "inner"
    /\ \/ per_task_steps >= max_steps_per_task
       \/ timed_out
       \/ step_count >= max_steps
    /\ ev' = IF per_task_steps >= max_steps_per_task THEN ev
             ELSE IF timed_out THEN "timeout" ELSE "max_steps"
    /\ pc' = "after"
    /\ UNCHANGED <<tasks, cur, plan_failed, loop_unchanged>>

\* ask_for_actions and the handling of its reply
AskForActions ==
    /\ pc = "inner"
    /\ per_task_steps < max_steps_per_task
    /\ ~timed_out
    /\ step_count < max_steps
    /\ all_session_outputs' \in
           ManageContextSize(task_outputs \o task_step_outputs)
    /\ retry_context' = ConsumeContext(retry_context)
    /\ timed_out' \in Elapse(timed_out)
    /\ \/ \* AGENT_ERROR reply (the LLM call raised)
          /\ agent_error_count' = agent_error_count + 1
          /\ IF AgentErrorsExhausted(agent_error_count')
             THEN /\ tasks' = MarkDone(tasks, cur)
                  /\ pc' = "after"
                  /\ ev' = "task_done"
             ELSE /\ tasks' = tasks
                  /\ pc' = "inner"
                  /\ ev' = "agent_error"
          /\ tool_calls' = tool_calls
       \/ \* reply without tool calls
          /\ agent_error_count' = 0
          /\ tasks' = MarkDone(tasks, cur)
          /\ pc' = "after"
          /\ ev' = "task_done"
          /\ tool_calls' = tool_calls
       \/ \* reply with tool calls
          /\ agent_error_count' = 0
          /\ tool_calls' \in Replies
          /\ tasks' = tasks
          /\ pc' = "for"
          /\ ev' = "tool_calls"
    /\ UNCHANGED <<cur, step_count, per_task_steps, retry_count, last_actions,
                   action_tasks, task_outputs, task_step_outputs,
                   skip_arg_optimization, plan_failed, retry_contexts>>

\* mutant: the for loop does not look at the step budget
StepBudgetLeft_Mut(n) == TRUE

\* for tool_call in ...: if step_count >= self.max_steps: break
StepBudgetLeft(n) == n < max_steps

\* for tool_call in ai_message.tool_calls: exhausted, or step budget used up
ForExit ==
    /\ pc = "for"
    /\ tool_calls = <<>> \/ ~StepBudgetLeft(step_count)
    /\ tool_calls' = <<>>
    /\ pc' = "askdone"
    /\ UNCHANGED <<tasks, cur, step_count, per_task_steps, retry_count,
                   retry_context, agent_error_count, last_actions,
                   action_tasks, task_outputs, task_step_outputs,
                   all_session_outputs, timed_out, skip_arg_optimization,
                   plan_failed, retry_contexts, ev>>

\* optimize_tool_args: the arguments it can return
OptimizeToolArgs(name, initial_args) ==
    IF skip_arg_optimization = "true" \/ name \notin TOOLS
    THEN {initial_args} ELSE Args

\* one iteration of the body of the for loop
ExecuteToolCall ==
    /\ pc = "for"
    /\ tool_calls # <<>>
    /\ StepBudgetLeft(step_count)
    /\ IF skip_arg_optimization = "absent"
       THEN \* the attribute read raises AttributeError, which run lets through
            /\ pc' = "raised"
            /\ ev' = "executing_tool"
            /\ UNCHANGED <<tasks, tool_calls, last_actions, action_tasks,
                           timed_out, step_count, per_task_steps, retry_count,
                           retry_context, retry_contexts, task_outputs,
                           task_step_outputs>>
       ELSE
       LET tool_name == Head(tool_calls).name
           initial_args == Head(tool_calls).args
       IN \E optimized_args \in OptimizeToolArgs(tool_name, initial_args) :
          LET action_sig == ActionSig(tool_name, optimized_args) IN
          /\ last_actions' = PushAction(last_actions, action_sig)
          /\ action_tasks' = PushAction(action_tasks, cur)
          /\ timed_out' \in Elapse(timed_out)
          /\ IF LoopDetected(last_actions')
             THEN /\ tasks' = MarkDone(tasks, cur)
                  /\ tool_calls' = <<>>
                  /\ pc' = "askdone"
                  /\ ev' = "loop_detected"
                  /\ UNCHANGED <<step_count, per_task_steps, retry_count,
                                 retry_context, retry_contexts, task_outputs,
                                 task_step_outputs>>
             ELSE /\ tasks' = tasks
                  /\ tool_calls' = Tail(tool_calls)
                  /\ pc' = "for"
                  /\ IF tool_name \notin TOOLS
                     THEN /\ ev' = "invalid_tool"
                          /\ step_count' = step_count + 1
                          /\ per_task_steps' = per_task_steps + 1
                          /\ UNCHANGED <<retry_count, retry_context,
                                         retry_contexts, task_outputs,
                                         task_step_outputs>>
                     ELSE \E result \in {"data", "empty", "raise"} :
                          IF result = "raise"
                          THEN /\ ev' = "tool_failed"
                               /\ task_outputs' = RecordError(task_outputs, tool_name, optimized_args)
                               /\ task_step_outputs' = RecordError(task_step_outputs, tool_name, optimized_args)
                               /\ step_count' = step_count + 1
                               /\ per_task_steps' = per_task_steps + 1
                               /\ UNCHANGED <<retry_count, retry_context,
                                              retry_contexts>>
                          ELSE /\ task_outputs' = RecordOutput(task_outputs, tool_name, optimized_args, result, retry_count)
                               /\ task_step_outputs' = RecordOutput(task_step_outputs, tool_name, optimized_args, result, retry_count)
                               /\ IF ShouldRetry(result, retry_count)
                                  THEN /\ ev' = "retry"
                                       /\ retry_count' = retry_count + 1
                                       /\ retry_context' = RetryContext(tool_name, optimized_args, result)
                                       /\ retry_contexts' = [retry_contexts EXCEPT ![cur] = Min(@ + 1, RetryCap)]
                                       /\ UNCHANGED <<step_count, per_task_steps>>
                                  ELSE /\ ev' = IF result = "empty" THEN "tool_run_empty" ELSE "tool_run_data"
                                       /\ step_count' = step_count + 1
                                       /\ per_task_steps' = per_task_steps + 1
                                       /\ UNCHANGED <<retry_count, retry_context,
                                                      retry_contexts>>
    /\ UNCHANGED <<cur, agent_error_count, all_session_outputs,
                   skip_arg_optimization, plan_failed>>

\* ask_if_done after the for loop (a failing call counts as "not done")
AskIfDone ==
    /\ pc = "askdone"
    /\ \E resp \in BOOLEAN :
          /\ tasks' = ApplyValidation(tasks, cur, resp)
          /\ pc' = IF resp THEN "after" ELSE "inner"
          /\ ev' = IF resp THEN "task_done" ELSE ev
    /\ timed_out' \in Elapse(timed_out)
    /\ UNCHANGED <<cur, step_count, per_task_steps, retry_count,
                   retry_context, agent_error_count, last_actions,
                   action_tasks, task_outputs, task_step_outputs,
                   all_session_outputs, tool_calls, skip_arg_optimization,
                   plan_failed, retry_contexts>>

\* if task.done and self.is_goal_achieved(...): break
AfterInner ==
    /\ pc = "after"
    /\ IF GoalConsulted(tasks, cur)
       THEN \E goal \in {"yes", "no", "failed"} :
               /\ pc' = IF goal = "yes" THEN "answer" ELSE "outer"
               /\ ev' = IF goal = "yes" THEN "analysis_complete"
                        ELSE IF goal = "failed" THEN "meta_validation_failed"
                        ELSE ev
       ELSE /\ pc' = "outer"
            /\ ev' = ev
    /\ UNCHANGED <<tasks, cur, plan_failed, loop_unchanged>>

\* _generate_answer: its LLM call is not guarded
GenerateAnswer ==
    /\ pc = "answer"
    /\ \E ok \in BOOLEAN :
          /\ pc' = IF ok THEN "done" ELSE "raised"
          /\ ev' = IF ok THEN "summary" ELSE ev
    /\ UNCHANGED <<tasks, cur, plan_failed, loop_unchanged>>

\* ------------------------------------------------- api.py: event channel
\* One query over one websocket connection: the handler coroutine
\* websocket_chat, the agent thread started by run_in_executor, the
\* send_event coroutines the callbacks schedule on the event loop, and the
\* client.  The event loop runs its callbacks in the order they were
\* scheduled, and a send that succeeds hands its message to the transport
\* before the coroutine can be suspended.
MaxOps == 3
MaxEmptyMessages == 1

\* what the agent thread does between two of its logger calls
AgentOps == {"task_start", "llm", "tool", "task_done"}

\* the patched logger methods and the event each one streams
EventOf(op) ==
    CASE op = "task_start" -> "task_start"
      [] op = "llm" -> "log"
      [] op = "tool" -> "tool_execution"
      [] op = "task_done" -> "task_complete"

VARIABLES
    h_pc,         \* websocket_chat: "receive", "await_run", "idle", "closed"
    a_pc,         \* agent thread: "idle", "run", "returned", "raised"
    a_steps,      \* operations the agent thread has performed
    a_last,       \* its latest operation
    queue,        \* send_event coroutines scheduled and not yet run
    delivered,    \* the event types the client has received, in order
    connected,    \* callback.connected
    client_open   \* the client still holds the connection

channel_vars == <<h_pc, a_pc, a_steps, a_last, queue, delivered, connected,
                  client_open>>

ChannelInit ==
    /\ h_pc = "receive"
    /\ a_pc = "idle"
    /\ a_steps = 0
    /\ a_last = "none"
    /\ queue = <<>>
    /\ delivered = <<>>
    /\ connected = FALSE
    /\ client_open = TRUE

\* on_task_start, on_tool_execution, on_task_complete, on_log, on_answer:
\* run_coroutine_threadsafe only schedules send_event
OnEvent(q, e) == Append(q, e)

\* send_event: the flag after the coroutine has run
ConnectedAfter_Mut(conn, open) == conn
ConnectedAfter(conn, open) == conn /\ open

\* send_event: what the client has received after the coroutine has run
DeliveredAfter(conn, open, d, e) == IF conn /\ open THEN Append(d, e) ELSE d

\* receive_json returned a message: the empty-message reply, or "start",
\* the callback, the agent and run_in_executor
ReceiveMessage ==
    /\ h_pc = "receive"
    /\ client_open
    /\ \/ /\ Len(delivered) < MaxEmptyMessages
          /\ delivered' = Append(delivered, "error")
          /\ UNCHANGED <<h_pc, a_pc, connected>>
       \/ /\ delivered' = Append(delivered, "start")
          /\ connected' = TRUE
          /\ a_pc' = "run"
          /\ h_pc' = "await_run"
    /\ UNCHANGED <<a_steps, a_last, queue, client_open>>

\* the agent thread: one logger call of Agent.run with what precedes it
AgentOp ==
    /\ a_pc = "run"
    /\ a_steps < MaxOps
    /\ \E op \in AgentOps :
          /\ a_last' = op
          /\ queue' = OnEvent(queue, EventOf(op))
    /\ a_steps' = a_steps + 1
    /\ UNCHANGED <<h_pc, a_pc, delivered, connected, client_open>>

\* Agent.run returns its answer, or raises
AgentReturn ==
    /\ a_pc = "run"
    /\ a_pc' \in {"returned", "raised"}
    /\ UNCHANGED <<h_pc, a_steps, a_last, queue, delivered, connected,
                   client_open>>

\* the event loop runs the oldest scheduled send_event
SendEvent ==
    /\ queue # <<>>
    /\ queue' = Tail(queue)
    /\ delivered' = DeliveredAfter(connected, client_open, delivered, Head(queue))
    /\ connected' = ConnectedAfter(connected, client_open)
    /\ UNCHANGED <<h_pc, a_pc, a_steps, a_last, client_open>>

\* run_in_executor is over: on_answer, then "complete" sent directly; a
\* raising run or a failing send goes to the except branches
HandlerResume ==
    /\ h_pc = "await_run"
    /\ a_pc \in {"returned", "raised"}
    /\ queue = <<>>
    /\ IF a_pc = "returned"
       THEN /\ queue' = OnEvent(queue, "answer")
            /\ IF client_open
               THEN /\ delivered' = Append(delivered, "complete")
                    /\ h_pc' = "idle"
                    /\ connected' = connected
               ELSE /\ delivered' = delivered
                    /\ h_pc' = "closed"
                    /\ connected' = FALSE
       ELSE /\ queue' = queue
            /\ connected' = FALSE
            /\ IF client_open
               THEN delivered' = Append(delivered, "error") /\ h_pc' = "idle"
               ELSE delivered' = delivered /\ h_pc' = "closed"
    /\ UNCHANGED <<a_pc, a_steps, a_last, client_open>>

\* the client goes away; a handler waiting in receive_json gets
\* WebSocketDisconnect at once, a handler waiting for the agent does not
ClientClose ==
    /\ client_open
    /\ client_open' = FALSE
    /\ IF h_pc \in {"receive", "idle"}
       THEN h_pc' = "closed" /\ connected' = FALSE
       ELSE UNCHANGED <<h_pc, connected>>
    /\ UNCHANGED <<a_pc, a_steps, a_last, queue, delivered>>

\* ------------------------------------------ process-wide state of the server
\* One session (a query on a websocket) next to the other clients of the
\* same process.  Values are named after who chose them: DefaultModel is the
\* start-up value, OtherModel a model another client selects, SessionModel
\* the model named in the session's own message; a cached bundle is named
\* after the session whose call loaded it.
MaxSessionCalls == 3

DefaultModel == "gpt-oss:20b"
OtherModel == "qwen3-vl:8b"
SessionModel == "ministral-3:8b"

VARIABLES
    current_model,    \* api.py global
    selected_model,   \* config: set_selected_model / get_selected_model
    agent_model,      \* agent.model_name of the session ("none" before)
    llm_model,        \* model of the session's latest LLM call
    patient_cache,    \* _patient_cache entry of one patient: who loaded it
    bundle_seen,      \* bundle the session's latest load returned
    g_pc,             \* the session: "idle", "run", "done"
    g_calls           \* LLM calls and loads the session has made

server_vars == <<current_model, selected_model, agent_model, llm_model,
                 patient_cache, bundle_seen, g_pc, g_calls>>

ServerInit ==
    /\ current_model = DefaultModel
    /\ selected_model = DefaultModel
    /\ agent_model = "none"
    /\ llm_model = "none"
    /\ patient_cache = "none"
    /\ bundle_seen = "none"
    /\ g_pc = "idle"
    /\ g_calls = 0

\* model = data.get("model", current_model)
MessageModel(data, current) == IF data = "absent" THEN current ELSE data

\* load_patient_bundle: the cached bundle when there is one
LoadPatientBundle(cache, caller) == IF cache # "none" THEN cache ELSE caller

\* POST /api/select-model by another client
SelectModel ==
    /\ \E m \in {DefaultModel, OtherModel} :
          /\ m # current_model
          /\ current_model' = m
          /\ selected_model' = m
    /\ UNCHANGED <<agent_model, llm_model, patient_cache, bundle_seen, g_pc,
                   g_calls>>

\* a tool call of another session loads the patient
OtherSessionLoad ==
    /\ patient_cache = "none"
    /\ patient_cache' = LoadPatientBundle(patient_cache, "other")
    /\ UNCHANGED <<current_model, selected_model, agent_model, llm_model,
                   bundle_seen, g_pc, g_calls>>

\* websocket_chat: the session's message arrives, Agent(model_name=model)
StartSession ==
    /\ g_pc = "idle"
    /\ \E data \in {"absent", SessionModel} :
          agent_model' = MessageModel(data, current_model)
    /\ g_pc' = "run"
    /\ UNCHANGED <<current_model, selected_model, llm_model, patient_cache,
                   bundle_seen, g_calls>>

\* an LLM call of the agent: call_llm(..., model=self.model_name)
AgentLlmCall ==
    /\ g_pc = "run"
    /\ g_calls < MaxSessionCalls
    /\ llm_model' = agent_model
    /\ g_calls' = g_calls + 1
    /\ UNCHANGED <<current_model, selected_model, agent_model, patient_cache,
                   bundle_seen, g_pc>>

\* analyze_image_with_llm: call_llm(..., model=get_selected_model())
VisionLlmCall ==
    /\ g_pc = "run"
    /\ g_calls < MaxSessionCalls
    /\ llm_model' = selected_model
    /\ g_calls' = g_calls + 1
    /\ UNCHANGED <<current_model, selected_model, agent_model, patient_cache,
                   bundle_seen, g_pc>>

\* a tool of the session calls load_patient_bundle
SessionLoad ==
    /\ g_pc = "run"
    /\ g_calls < MaxSessionCalls
    /\ bundle_seen' = LoadPatientBundle(patient_cache, "session")
    /\ patient_cache' = bundle_seen'
    /\ g_calls' = g_calls + 1
    /\ UNCHANGED <<current_model, selected_model, agent_model, llm_model, g_pc>>

\* the session's run is over
EndSession ==
    /\ g_pc = "run"
    /\ g_pc' = "done"
    /\ UNCHANGED <<current_model, selected_model, agent_model, llm_model,
                   patient_cache, bundle_seen, g_calls>>

\* ------------------------------------- model.py: parse_tool_call_from_json
\* A reply is a sequence of tokens: "T" a word without braces or fences,
\* "L" and "R" the two braces, "F" a ``` fence, "FJ" a ```json fence, and
\* "P1", "P2" the text between the braces of a serialised tool call up to
\* its tool_args object.  The free text may also quote another tool call,
\* one without tool_args ("P0"): bare ("O"), in a ``` block ("FO") or in a
\* ```json block ("JO").
MaxText == 2

Records == {"P1", "P2"}
OtherRecord == "P0"
Payloads == Records \cup {OtherRecord}
TextTokens == {"T", "L", "R", "F", "FJ", "O", "FO", "JO"}
Fences == {"F", "FJ"}
Texts == UNION {[1..n -> TextTokens] : n \in 0..MaxText}

\* json.dumps({"tool_name": ..., "tool_args": {...}})
Serialise(rec) == <<"L", rec, "L", "R", "R">>

\* {"tool_name": ...}: a tool call without the tool_args key
SerialiseBare(rec) == <<"L", rec, "R">>

\* the characters of a piece of free text
ExpandToken(t) ==
    CASE t = "O" -> SerialiseBare(OtherRecord)
      [] t = "FO" -> <<"F">> \o SerialiseBare(OtherRecord) \o <<"F">>
      [] t = "JO" -> <<"FJ">> \o SerialiseBare(OtherRecord) \o <<"F">>
      [] OTHER -> <<t>>
RECURSIVE Expand(_)
Expand(text) ==
    IF text = <<>> THEN <<>> ELSE ExpandToken(Head(text)) \o Expand(Tail(text))

\* the record embedded in free text
Embed(prefix, rec, suffix) == Expand(prefix) \o Serialise(rec) \o Expand(suffix)

FirstIn(text, from, S) ==
    LET I == {i \in from..Len(text) : text[i] \in S}
    IN  IF I = {} THEN 0 ELSE CHOOSE i \in I : \A j \in I : i <= j
LastIn(text, S) ==
    LET I == {i \in 1..Len(text) : text[i] \in S}
    IN  IF I = {} THEN 0 ELSE CHOOSE i \in I : \A j \in I : j <= i

\* re.findall of a fenced pattern, ```json ... ``` (openers {"FJ"}) or
\* ``` ... ``` (any fence opens): the contents of the non-overlapping
\* matches, left to right; each match ends at the next ``` of the text, and
\* the word json of a ```json taken as a plain ``` stays in the text
RECURSIVE FenceMatches(_, _)
FenceMatches(text, openers) ==
    LET i == FirstIn(text, 1, openers)
        j == IF i = 0 THEN 0 ELSE FirstIn(text, i + 1, Fences)
    IN  IF j = 0 THEN <<>>
        ELSE LET lead == IF openers = Fences /\ text[i] = "FJ"
                         THEN <<"T">> ELSE <<>>
                 left == IF text[j] = "FJ" THEN <<"T">> ELSE <<>>
             IN  <<lead \o SubSeq(text, i + 1, j - 1)>>
                   \o FenceMatches(left \o SubSeq(text, j + 1, Len(text)),
                                   openers)

\* re.findall(r'\{[\s\S]*\}'): from the first brace to the last one
GreedyBraces_Mut(text) ==
    LET i == FirstIn(text, 1, {"L"})
        j == IF i = 0 THEN 0 ELSE FirstIn(text, i + 1, {"R"})
    IN  IF j = 0 THEN <<>> ELSE <<SubSeq(text, i, j)>>
GreedyBraces(text) ==
    LET i == FirstIn(text, 1, {"L"})
        j == LastIn(text, {"R"})
    IN  IF i = 0 \/ j < i THEN <<>> ELSE <<SubSeq(text, i, j)>>

\* json.loads of a match: a tool call, an object without tool_name, or a
\* JSONDecodeError
JsonLoads(match) ==
    IF \E r \in Payloads : match = Serialise(r)
    THEN CHOOSE r \in Payloads : match = Serialise(r)
    ELSE IF \E r \in Payloads : match = SerialiseBare(r)
    THEN CHOOSE r \in Payloads : match = SerialiseBare(r)
    ELSE IF match = <<"L", "R">> THEN "no_tool_name" ELSE "invalid"

\* the loop over the matches of one pattern: the first match that starts
\* with a brace and loads to an object with tool_name is returned
RECURSIVE FirstToolCall_Mut(_)
FirstToolCall_Mut(matches) ==
    IF matches = <<>> THEN "None"
    ELSE LET match == Head(matches)
             later == FirstToolCall_Mut(Tail(matches))
         IN  IF later # "None" THEN later
             ELSE IF match # <<>> /\ match[1] = "L"
                      /\ JsonLoads(match) \in Payloads
             THEN JsonLoads(match)
             ELSE "None"
RECURSIVE FirstToolCall(_)
FirstToolCall(matches) ==
    IF matches = <<>> THEN "None"
    ELSE LET match == Head(matches)
         IN  IF match # <<>> /\ match[1] = "L" /\ JsonLoads(match) \in Payloads
             THEN JsonLoads(match)
             ELSE FirstToolCall(Tail(matches))

\* parse_tool_call_from_json: the three patterns in their order
ParseToolCallFromJson(text) ==
    IF text = <<>> THEN "None"
    ELSE LET byJsonFence == FirstToolCall(FenceMatches(text, {"FJ"}))
             byFence == FirstToolCall(FenceMatches(text, Fences))
         IN  IF byJsonFence # "None" THEN byJsonFence
             ELSE IF byFence # "None" THEN byFence
             ELSE FirstToolCall(GreedyBraces(text))

VARIABLES
    p_prefix,     \* free text before the serialised record
    p_suffix,     \* free text after it
    p_record,     \* the record that was serialised
    p_result,     \* what the parser returned ("unparsed" before the call)
    p_pc          \* "reply", "parsed"

parser_vars == <<p_prefix, p_suffix, p_record, p_result, p_pc>>

ParserInit ==
    /\ p_prefix \in Texts
    /\ p_suffix \in Texts
    /\ p_record \in Records
    /\ p_result = "unparsed"
    /\ p_pc = "reply"

ParserIdle ==
    /\ p_prefix = <<>>
    /\ p_suffix = <<>>
    /\ p_record = "P1"
    /\ p_result = "unparsed"
    /\ p_pc = "reply"

\* _process_prompt_based_tool_response: the reply is parsed
ParseReply ==
    /\ p_pc = "reply"
    /\ p_result' = ParseToolCallFromJson(Embed(p_prefix, p_record, p_suffix))
    /\ p_pc' = "parsed"
    /\ UNCHANGED <<p_prefix, p_suffix, p_record>>

\* --------------------------------- model.py: is_empty_or_no_data_result
\* A tool result is None, a string, a mapping, a list or another value.  A
\* string is a sequence of words, each in lower or in upper case; of a
\* mapping only the five keys the function looks at are kept.
MaxWords == 3

Words == {"no", "data", "results", "not", "found", "empty", "patients",
          "records", "0", "could", "find", "unable", "to", "ok"}
CasedWords == Words \X {"lower", "upper"}
Strings == UNION {[1..n -> CasedWords] : n \in 0..MaxWords}

\* str.lower()
Lower_Mut(str) == str
Lower(str) == [i \in 1..Len(str) |-> <<str[i][1], "lower">>]

Phrase(ws) == [i \in 1..Len(ws) |-> <<ws[i], "lower">>]

\* no_data_indicators
no_data_indicators ==
    { Phrase(<<"no", "data">>), Phrase(<<"no", "results">>),
      Phrase(<<"not", "found">>), Phrase(<<"empty">>),
      Phrase(<<"no", "patients">>), Phrase(<<"no", "records">>),
      Phrase(<<"0", "patients">>), Phrase(<<"0", "results">>),
      Phrase(<<"could", "not", "find">>), Phrase(<<"unable", "to", "find">>) }

\* indicator in result_lower
Contains(str, sub) ==
    \E i \in 1..Len(str) :
        /\ i + Len(sub) - 1 <= Len(str)
        /\ SubSeq(str, i, i + Len(sub) - 1) = sub

\* values of the keys patients, results, conditions, and of the two counts
FieldValues == {"absent", "null", "zero", "empty_list", "list", "empty_dict",
                "dict"}
CountValues == {"absent", "null", "zero", "one"}
Mappings == [patients : FieldValues, results : FieldValues,
             conditions : FieldValues, total_patients : CountValues,
             count : CountValues]
NoMapping == [patients |-> "absent", results |-> "absent",
              conditions |-> "absent", total_patients |-> "absent",
              count |-> "absent"]
OtherKinds == {"none", "empty_list", "list", "zero", "empty_tuple", "object"}

\* 'key' in result and not result['key']
PresentAndFalsy_Mut(v) == v \in {"empty_list", "empty_dict"}
PresentAndFalsy(v) == v \in {"null", "zero", "empty_list", "empty_dict"}

\* the isinstance tests on result['conditions']
EmptyConditions(v) == v \in {"empty_list", "empty_dict"}

\* result.get(key, 1) == 0
CountIsZero(v) == v = "zero"

\* is_empty_or_no_data_result
IsEmptyOrNoDataResult(kind, str, map) ==
    IF kind = "none" THEN TRUE
    ELSE IF kind = "str"
    THEN \E indicator \in no_data_indicators : Contains(Lower(str), indicator)
    ELSE IF kind = "dict"
    THEN \/ PresentAndFalsy(map.patients)
         \/ PresentAndFalsy(map.results)
         \/ EmptyConditions(map.conditions)
         \/ CountIsZero(map.total_patients)
         \/ CountIsZero(map.count)
    ELSE kind = "empty_list"

VARIABLES
    e_kind,       \* "none", "str", "dict" or one of the other kinds
    e_str,        \* the string (<<>> unless e_kind = "str")
    e_map,        \* the mapping (NoMapping unless e_kind = "dict")
    e_verdict     \* "unknown" before the call, then "empty" or "usable"

classifier_vars == <<e_kind, e_str, e_map, e_verdict>>

ClassifierInit ==
    /\ e_verdict = "unknown"
    /\ \/ e_kind \in OtherKinds /\ e_str = <<>> /\ e_map = NoMapping
       \/ e_kind = "str" /\ e_str \in Strings /\ e_map = NoMapping
       \/ e_kind = "dict" /\ e_str = <<>> /\ e_map \in Mappings

ClassifierIdle ==
    /\ e_kind = "none"
    /\ e_str = <<>>
    /\ e_map = NoMapping
    /\ e_verdict = "unknown"

\* Agent.run, retry test: the result of a tool is classified
ClassifyResult ==
    /\ e_verdict = "unknown"
    /\ e_verdict' = IF IsEmptyOrNoDataResult(e_kind, e_str, e_map)
                    THEN "empty" ELSE "usable"
    /\ UNCHANGED <<e_kind, e_str, e_map>>

\* ------------------------------ model_capabilities.py, model.py: call_llm
\* One call of the gateway: the capability lookup, the choice of the mode,
\* the invocations of the backend and the post-processing of the reply.
RegisteredNames == {"gpt-oss:20b", "qwen3-vl:8b", "ministral-3:8b", "llama3.1:8b"}
UnknownNames == {"gpt-oss:120b", "GPT-OSS:20B"}
ModelNames == RegisteredNames \cup UnknownNames

Capability(n, native, strategy, examples, retries) ==
    [name |-> n, native_tools |-> native, tool_strategy |-> strategy,
     needs_tool_examples |-> examples, max_retries_on_failure |-> retries]

MODEL_REGISTRY ==
    [n \in RegisteredNames |->
        CASE n = "gpt-oss:20b" -> Capability(n, TRUE, "native", FALSE, 2)
          [] n = "qwen3-vl:8b" -> Capability(n, FALSE, "prompt_json", TRUE, 3)
          [] n = "ministral-3:8b" -> Capability(n, TRUE, "native", FALSE, 2)
          [] n = "llama3.1:8b" -> Capability(n, TRUE, "native", TRUE, 2)]

DEFAULT_CAPABILITY == Capability("unknown", FALSE, "prompt_json", TRUE, 2)

\* MODEL_REGISTRY.get(model_name, DEFAULT_CAPABILITY)
GetModelCapability_Mut(model_name) ==
    MODEL_REGISTRY[IF model_name \in DOMAIN MODEL_REGISTRY
                   THEN model_name ELSE "gpt-oss:20b"]
GetModelCapability(model_name) ==
    IF model_name \in DOMAIN MODEL_REGISTRY
    THEN MODEL_REGISTRY[model_name] ELSE DEFAULT_CAPABILITY

\* the runnable: with_structured_output, bind_tools, or the plain llm
Runnable(schema, tools, cap) ==
    IF schema THEN "structured"
    ELSE IF tools /\ cap.native_tools THEN "native_tools" ELSE "plain"

\* use_prompt_tools = tools and not capability.native_tools
UsePromptTools(tools, cap) == tools /\ ~cap.native_tools

\* what the backend can reply in each mode
Replies_of(mode) ==
    IF mode = "structured" THEN {"schema_object"}
    ELSE IF mode = "native_tools" THEN {"native_tool_calls", "text"}
    ELSE {"tool_json", "thinking_tool_json", "text"}

\* _extract_thinking_content, then _process_prompt_based_tool_response
PostProcess(prompt_tools, reply) ==
    IF reply = "schema_object" THEN "schema_object"
    ELSE LET content == IF reply = "thinking_tool_json" THEN "tool_json"
                        ELSE reply
         IN  IF prompt_tools /\ content = "tool_json" THEN "parsed_tool_calls"
             ELSE content

VARIABLES
    w_model,      \* model
    w_schema,     \* output_schema is given
    w_tools,      \* tools is given and not empty
    w_cap,        \* capability
    w_mode,       \* the runnable
    w_catalogue,  \* the tool selection prompt was appended to the prompt
    w_attempts,   \* invocations of the backend so far
    w_response,   \* what call_llm returns ("none" before)
    w_pc          \* "call", "invoke", "returned", "raised"

gateway_vars == <<w_model, w_schema, w_tools, w_cap, w_mode, w_catalogue,
                  w_attempts, w_response, w_pc>>

GatewayInit ==
    /\ w_model \in ModelNames
    /\ w_schema \in BOOLEAN
    /\ w_tools \in BOOLEAN
    /\ w_cap = DEFAULT_CAPABILITY
    /\ w_mode = "none"
    /\ w_catalogue = FALSE
    /\ w_attempts = 0
    /\ w_response = "none"
    /\ w_pc = "call"

GatewayIdle ==
    /\ w_model = "gpt-oss:20b"
    /\ w_schema = FALSE
    /\ w_tools = FALSE
    /\ w_cap = DEFAULT_CAPABILITY
    /\ w_mode = "none"
    /\ w_catalogue = FALSE
    /\ w_attempts = 0
    /\ w_response = "none"
    /\ w_pc = "call"

\* call_llm up to the invocation: capability, runnable, prompt
ConfigureCall ==
    /\ w_pc = "call"
    /\ w_cap' = GetModelCapability(w_model)
    /\ w_mode' = Runnable(w_schema, w_tools, w_cap')
    /\ w_catalogue' = UsePromptTools(w_tools, w_cap')
    /\ w_pc' = "invoke"
    /\ UNCHANGED <<w_model, w_schema, w_tools, w_attempts, w_response>>

\* _invoke_with_retry: one iteration of "for attempt in range(max_retries)",
\* whose last one re-raises, and what call_llm does with the reply of a
\* successful one
InvokeAttempt ==
    /\ w_pc = "invoke"
    /\ w_attempts < w_cap.max_retries_on_failure
    /\ w_attempts' = w_attempts + 1
    /\ \/ \E reply \in Replies_of(w_mode) :
             /\ w_response' = PostProcess(w_catalogue, reply)
             /\ w_pc' = "returned"
       \/ /\ w_response' = w_response
          /\ w_pc' = IF w_attempts = w_cap.max_retries_on_failure - 1
                     THEN "raised" ELSE "invoke"
    /\ UNCHANGED <<w_model, w_schema, w_tools, w_cap, w_mode, w_catalogue>>

\* ------------- tools/medical/api.py, primitives.py: load_patients_batch
\* Patient files are named by strings of characters; a bundle is named by
\* the file it was read from.
MaxIds == 2
MaxBatches == 2
max_workers == 8

Stems == {<<"1">>, <<"1", "0">>, <<"0", "1">>}
IdLists == UNION {[1..n -> Stems] : n \in 0..MaxIds}

\* the glob patterns "*{id}*.json": the file name contains the id
NameContains(name, id) ==
    \E i \in 0..(Len(name) - Len(id)) : SubSeq(name, i + 1, i + Len(id)) = id

\* the files among which matches[0] is taken: the pattern "{id}.json"
\* comes first, then the patterns with wildcards
GlobMatches(files, id) ==
    IF files[id] # "absent" THEN {id}
    ELSE {f \in Stems : files[f] # "absent" /\ NameContains(f, id)}

\* dict(zip(patient_ids, results)): the last occurrence of a key wins
ZipDict(ids, results) ==
    LET last(id) == CHOOSE i \in DOMAIN ids :
                        /\ ids[i] = id
                        /\ \A j \in DOMAIN ids : ids[j] = id => j <= i
    IN  [id \in {ids[i] : i \in DOMAIN ids} |-> results[last(id)]]

\* bundle or {}
OrEmpty(bundle) == IF bundle = "None" THEN "empty" ELSE bundle

VARIABLES
    b_files,   \* the data directory: what each file name holds
    b_cache,   \* _patient_cache: id -> bundle ("unset" for no entry)
    b_ids,     \* patient_ids of the running call
    t_pc,      \* each load_patient_bundle: "queued", "checked", "done", "failed"
    t_res,     \* what each load_patient_bundle returned
    b_out,     \* what load_patients_batch returned
    b_calls,   \* calls so far
    b_pc       \* "idle", "loading", "returned", "raised"

batch_vars == <<b_files, b_cache, b_ids, t_pc, t_res, b_out, b_calls, b_pc>>

BatchInit ==
    /\ b_files \in [Stems -> {"absent", "ok", "bad"}]
    /\ b_cache = [id \in Stems |-> "unset"]
    /\ b_ids = <<>>
    /\ t_pc = <<>>
    /\ t_res = <<>>
    /\ b_out = <<>>
    /\ b_calls = 0
    /\ b_pc = "idle"

BatchIdle ==
    /\ b_files = [f \in Stems |-> "absent"]
    /\ b_cache = [id \in Stems |-> "unset"]
    /\ b_ids = <<>>
    /\ t_pc = <<>>
    /\ t_res = <<>>
    /\ b_out = <<>>
    /\ b_calls = 0
    /\ b_pc = "idle"

\* load_patients_batch(patient_ids) submits one load per list element
CallBatch ==
    /\ b_pc \in {"idle", "returned", "raised"}
    /\ b_calls < MaxBatches
    /\ \E ids \in IdLists :
          /\ b_ids' = ids
          /\ t_pc' = [i \in DOMAIN ids |-> "queued"]
          /\ t_res' = [i \in DOMAIN ids |-> "unset"]
    /\ b_calls' = b_calls + 1
    /\ b_out' = <<>>
    /\ b_pc' = "loading"
    /\ UNCHANGED <<b_files, b_cache>>

\* load_patient_bundle on a worker: the look into the cache
BeginLoad ==
    /\ b_pc = "loading"
    /\ \E i \in DOMAIN b_ids :
          /\ t_pc[i] = "queued"
          /\ Cardinality({j \in DOMAIN b_ids : t_pc[j] = "checked"}) < max_workers
          /\ IF b_cache[b_ids[i]] # "unset"
             THEN /\ t_res' = [t_res EXCEPT ![i] = b_cache[b_ids[i]]]
                  /\ t_pc' = [t_pc EXCEPT ![i] = "done"]
             ELSE /\ t_pc' = [t_pc EXCEPT ![i] = "checked"]
                  /\ t_res' = t_res
    /\ UNCHANGED <<b_files, b_cache, b_ids, b_out, b_calls, b_pc>>

\* load_patient_bundle on a worker: glob, open, json.load, cache, return
FinishLoad ==
    /\ b_pc = "loading"
    /\ \E i \in DOMAIN b_ids :
          /\ t_pc[i] = "checked"
          /\ LET matches == GlobMatches(b_files, b_ids[i])
             IN  IF matches = {}
                 THEN /\ t_res' = [t_res EXCEPT ![i] = "None"]
                      /\ t_pc' = [t_pc EXCEPT ![i] = "done"]
                      /\ b_cache' = b_cache
                 ELSE \E f \in matches :
                        IF b_files[f] = "bad"
                        THEN /\ t_pc' = [t_pc EXCEPT ![i] = "failed"]
                             /\ UNCHANGED <<t_res, b_cache>>
                        ELSE /\ b_cache' = [b_cache EXCEPT ![b_ids[i]] = f]
                             /\ t_res' = [t_res EXCEPT ![i] = f]
                             /\ t_pc' = [t_pc EXCEPT ![i] = "done"]
    /\ UNCHANGED <<b_files, b_ids, b_out, b_calls>>
    /\ b_pc' = b_pc

\* every load returned: the dictionary is built and None becomes {}
ReturnBatch ==
    /\ b_pc = "loading"
    /\ \A i \in DOMAIN b_ids : t_pc[i] = "done"
    /\ b_out' = [id \in DOMAIN ZipDict(b_ids, t_res) |->
                    OrEmpty(ZipDict(b_ids, t_res)[id])]
    /\ b_pc' = "returned"
    /\ UNCHANGED <<b_files, b_cache, b_ids, t_pc, t_res, b_calls>>

\* a load raised: only RuntimeError is caught, and that one by running the
\* loads again, so the exception of open or json.load leaves the call
RaiseBatch ==
    /\ b_pc = "loading"
    /\ \A i \in DOMAIN b_ids : t_pc[i] \in {"done", "failed"}
    /\ \E i \in DOMAIN b_ids : t_pc[i] = "failed"
    /\ b_pc' = "raised"
    /\ UNCHANGED <<b_files, b_cache, b_ids, t_pc, t_res, b_out, b_calls>>

\* ------------------- code_generator.py: generate_and_run_analysis
\* the functions PRIMITIVES_SPEC describes to the model
Advertised ==
    {"get_patients", "load_patient", "load_patients_batch",
     "batch_conditions", "batch_observations", "batch_medications",
     "batch_resources", "search_resources", "get_conditions",
     "get_observations", "get_medications", "filter_by_text",
     "filter_by_value", "count_by_field", "group_by_field",
     "aggregate_numeric", "scan_dicom_directory",
     "get_dicom_metadata_from_path", "find_patient_images",
     "load_dicom_image", "load_ecg_image", "get_dicom_metadata",
     "analyze_image_with_llm", "analyze_ecg_for_rhythm",
     "analyze_multiple_images_with_llm", "log_progress"}

\* the keys of the dictionary create_sandbox_globals returns
SandboxGlobals ==
    {"get_patients", "load_patient", "search_resources", "get_conditions",
     "get_observations", "get_medications", "filter_by_text",
     "filter_by_value", "count_by_field", "group_by_field",
     "aggregate_numeric", "scan_dicom_directory",
     "get_dicom_metadata_from_path", "find_patient_images",
     "load_dicom_image", "load_ecg_image", "get_dicom_metadata",
     "analyze_image_with_llm", "analyze_ecg_for_rhythm",
     "analyze_multiple_images_with_llm",
     "len", "str", "int", "float", "bool", "list", "dict", "set", "tuple",
     "range", "enumerate", "zip", "sorted", "sum", "min", "max", "abs",
     "round", "any", "all", "print", "hasattr", "getattr", "isinstance",
     "type", "ord", "chr", "Exception", "log_progress", "__builtins__"}

\* A source text, by what matters to its execution: whether it compiles,
\* what its top level does, the one name analyze looks up ("helper" is a
\* function of the source's own top level, "open" a built-in that is not
\* provided, "nothing" no name at all) and how the body of analyze ends.
Sources ==
    [syntax : {"ok", "bad"},
     toplevel : {"defines_analyze", "defines_other", "raises"},
     uses : Advertised \cup {"len", "open", "helper", "nothing"},
     body : {"returns", "raises"}]

\* except SyntaxError, except Exception
Caught_Mut(exc) == exc = "SyntaxError"
Caught(exc) == exc \in {"SyntaxError", "NameError", "Exception"}

ErrorRecord(kind) == [status |-> "error", error |-> kind, result |-> "none"]

VARIABLES
    s_code,     \* code
    s_globals,  \* sandbox_globals
    s_locals,   \* sandbox_locals
    s_out,      \* the returned record
    s_pc        \* "call", "analyze", "returned", "raised"

sandbox_vars == <<s_code, s_globals, s_locals, s_out, s_pc>>

SandboxInit ==
    /\ s_code \in Sources
    /\ s_globals = {}
    /\ s_locals = {}
    /\ s_out = [status |-> "none", error |-> "none", result |-> "none"]
    /\ s_pc = "call"

SandboxIdle ==
    /\ s_code = [syntax |-> "ok", toplevel |-> "defines_analyze",
                 uses |-> "nothing", body |-> "returns"]
    /\ s_globals = {}
    /\ s_locals = {}
    /\ s_out = [status |-> "none", error |-> "none", result |-> "none"]
    /\ s_pc = "call"

\* an exception inside the try block: a record if a handler takes it
Handle(exc, kind) ==
    IF Caught(exc)
    THEN /\ s_out' = ErrorRecord(kind)
         /\ s_pc' = "returned"
    ELSE /\ s_out' = s_out
         /\ s_pc' = "raised"

\* create_sandbox_globals, exec(code, ...), the look for analyze
ExecCode ==
    /\ s_pc = "call"
    /\ s_globals' = SandboxGlobals
    /\ IF s_code.syntax = "bad"
       THEN Handle("SyntaxError", "syntax") /\ s_locals' = s_locals
       ELSE IF s_code.toplevel = "raises"
       THEN Handle("Exception", "execution") /\ s_locals' = s_locals
       ELSE /\ s_locals' = IF s_code.toplevel = "defines_analyze"
                           THEN {"analyze", "helper"} ELSE {"helper"}
            /\ IF "analyze" \in s_locals'
               THEN s_pc' = "analyze" /\ s_out' = s_out
               ELSE /\ s_out' = ErrorRecord("missing_analyze")
                    /\ s_pc' = "returned"
    /\ s_code' = s_code

\* sandbox_locals["analyze"](): its names are looked up in sandbox_globals
RunAnalyze ==
    /\ s_pc = "analyze"
    /\ IF s_code.uses \notin s_globals \cup {"nothing"}
       THEN Handle("NameError", "execution")
       ELSE IF s_code.body = "raises"
       THEN Handle("Exception", "execution")
       ELSE /\ s_out' = [status |-> "success", error |-> "none",
                         result |-> "result"]
            /\ s_pc' = "returned"
    /\ UNCHANGED <<s_code, s_globals, s_locals>>

\* ------------------ agent.py: the arguments of a tool call (413-423)
\* One tool call of a reply, from the read of the capability's flag to the
\* arguments that are dispatched.
OArgs == {"args_a", "args_b"}
\* what the optimisation call gives: an exception, None, an empty dict, an
\* OptimizedToolArgs object with empty arguments or with arguments
OptimizerReplies == {"raise", "none", "empty_dict", "no_args"} \cup OArgs

\* optimize_tool_args(tool_name, initial_args, task_desc)
OptimizedArgs(tool, initial_args, reply) ==
    IF tool \notin TOOLS THEN initial_args
    ELSE IF reply \in {"raise", "none", "empty_dict"} THEN initial_args
    ELSE reply

VARIABLES
    o_model,    \* self.model_name
    o_tool,     \* tool_name
    o_initial,  \* initial_args
    o_reply,    \* what the optimisation call would give
    o_called,   \* the optimisation call was made
    o_args,     \* optimized_args ("unset" before)
    o_pc        \* "loop", "dispatch", "raised"

optimiser_vars == <<o_model, o_tool, o_initial, o_reply, o_called, o_args, o_pc>>

OptimiserInit ==
    /\ o_model \in ModelNames
    /\ o_tool \in ToolNames
    /\ o_initial \in OArgs
    /\ o_reply \in OptimizerReplies
    /\ o_called = FALSE
    /\ o_args = "unset"
    /\ o_pc = "loop"

OptimiserIdle ==
    /\ o_model = "gpt-oss:20b"
    /\ o_tool = RegisteredTool
    /\ o_initial = "args_a"
    /\ o_reply = "raise"
    /\ o_called = FALSE
    /\ o_args = "unset"
    /\ o_pc = "loop"

\* if self.model_capability.skip_arg_optimization: ... else: ...
\* The capability is the record get_model_capability gave to __init__; a
\* record without the attribute makes the read raise AttributeError.
ChooseArgs ==
    /\ o_pc = "loop"
    /\ LET capability == GetModelCapability(o_model) IN
       IF "skip_arg_optimization" \notin DOMAIN capability
       THEN /\ o_pc' = "raised"
            /\ UNCHANGED <<o_called, o_args>>
       ELSE IF capability.skip_arg_optimization
       THEN /\ o_args' = o_initial
            /\ o_called' = FALSE
            /\ o_pc' = "dispatch"
       ELSE /\ o_args' = OptimizedArgs(o_tool, o_initial, o_reply)
            /\ o_called' = (o_tool \in TOOLS)
            /\ o_pc' = "dispatch"
    /\ UNCHANGED <<o_model, o_tool, o_initial, o_reply>>

\* ---------- model.py, agent.py: a prompt-JSON reply without a tool call
\* What parse_tool_call_from_json found in the content: nothing ("absent"),
\* or an object whose tool_name is null, empty, a tool's name, or a value
\* that cannot be hashed.
ParsedNames == {"absent", "null", "empty", "tool", "unhashable"}
\* a text, by whether it is empty and whether it starts with "AGENT_ERROR:"
ContentKinds == {"empty", "text", "sentinel_text"}

\* parsed and parsed.get('tool_name')
HasToolName_Mut(name) == name # "absent"
HasToolName(name) == name \in {"tool", "unhashable"}

\* _process_prompt_based_tool_response inside call_llm inside
\* ask_for_actions: the message the agent gets
MessageFor(name, content, reasoning) ==
    IF ~HasToolName(name)
    THEN [content |-> content, tool_calls |-> 0]
    ELSE IF name = "unhashable"
    THEN [content |-> "sentinel_text", tool_calls |-> 0]
    ELSE [content |-> reasoning, tool_calls |-> 1]

VARIABLES
    r_name,       \* the tool_name the parser found
    r_content,    \* response.content
    r_reasoning,  \* the reasoning of the parsed object
    r_msg,        \* ai_message
    r_errors,     \* agent_error_count
    r_done,       \* task.done
    r_dispatched, \* tool calls dispatched for the reply
    r_pc          \* "ask", "reply", "inner", "for", "after"

reply_vars == <<r_name, r_content, r_reasoning, r_msg, r_errors, r_done,
                r_dispatched, r_pc>>

ReplyInit ==
    /\ r_name \in ParsedNames
    /\ r_content \in ContentKinds
    /\ r_reasoning \in ContentKinds
    /\ r_name = "absent" \/ r_content # "empty"
    /\ r_name = "tool" \/ r_reasoning = "empty"
    /\ r_msg = [content |-> "empty", tool_calls |-> 0]
    /\ r_errors \in 0..(max_agent_errors - 1)
    /\ r_done = FALSE
    /\ r_dispatched = 0
    /\ r_pc = "ask"

ReplyIdle ==
    /\ r_name = "absent"
    /\ r_content = "empty"
    /\ r_reasoning = "empty"
    /\ r_msg = [content |-> "empty", tool_calls |-> 0]
    /\ r_errors = 0
    /\ r_done = FALSE
    /\ r_dispatched = 0
    /\ r_pc = "ask"

\* ask_for_actions for a prompt-JSON model
ProcessReply ==
    /\ r_pc = "ask"
    /\ r_msg' = MessageFor(r_name, r_content, r_reasoning)
    /\ r_pc' = "reply"
    /\ UNCHANGED <<r_name, r_content, r_reasoning, r_errors, r_done,
                   r_dispatched>>

\* run: the agent-error check, then the check for tool calls
HandleReply ==
    /\ r_pc = "reply"
    /\ IF r_msg.content = "sentinel_text"
       THEN /\ r_errors' = r_errors + 1
            /\ r_done' = AgentErrorsExhausted(r_errors')
            /\ r_pc' = IF r_done' THEN "after" ELSE "inner"
            /\ r_dispatched' = r_dispatched
       ELSE /\ r_errors' = 0
            /\ IF r_msg.tool_calls = 0
               THEN /\ r_done' = TRUE
                    /\ r_pc' = "after"
                    /\ r_dispatched' = r_dispatched
               ELSE /\ r_done' = r_done
                    /\ r_pc' = "for"
                    /\ r_dispatched' = r_msg.tool_calls
    /\ UNCHANGED <<r_name, r_content, r_reasoning, r_msg>>

\* ------------------------------------ tools/medical/api.py: search_fhir
\* An entry is its place in the bundle and its date (0: no date field).
MaxEntries == 3
MaxDate == 2

Entries == [pos : 1..MaxEntries, date : 0..MaxDate]
Bundles ==
    UNION {{b \in [1..n -> Entries] : \A i \in 1..n : b[i].pos = i} :
           n \in 0..MaxEntries}

\* matching_entries[:limit]
Take(seq, limit) == SubSeq(seq, 1, IF limit < Len(seq) THEN limit ELSE Len(seq))

\* sorted(entries, key=get_sort_key, reverse=reverse): stable, by insertion
InsertSorted(e, sorted, reverse) ==
    LET before(x) == IF reverse THEN x.date >= e.date ELSE x.date <= e.date
        k == Cardinality({i \in 1..Len(sorted) :
                             \A j \in 1..i : before(sorted[j])})
    IN SubSeq(sorted, 1, k) \o <<e>> \o SubSeq(sorted, k + 1, Len(sorted))

RECURSIVE SortEntries(_, _)
SortEntries(entries, reverse) ==
    IF entries = <<>> THEN <<>>
    ELSE InsertSorted(entries[Len(entries)],
                      SortEntries(SubSeq(entries, 1, Len(entries) - 1), reverse),
                      reverse)

VARIABLES
    f_patient,  \* "none": no patient parameter, "missing": no bundle, "found"
    f_bundle,   \* the entries of the bundle that match type and filters
    f_count,    \* _count
    f_sort,     \* _sort: "", "date" or "-date"
    f_out,      \* the returned bundle ("unset" before)
    f_pc        \* "call", "returned"

search_vars == <<f_patient, f_bundle, f_count, f_sort, f_out, f_pc>>

SearchInit ==
    /\ f_patient \in {"none", "missing", "found"}
    /\ f_bundle \in Bundles
    /\ f_patient = "found" \/ f_bundle = <<>>
    /\ f_count \in 0..MaxEntries
    /\ f_sort \in {"", "date", "-date"}
    /\ f_out = [total |-> 0, entry |-> <<>>, error |-> "unset"]
    /\ f_pc = "call"

SearchIdle ==
    /\ f_patient = "none"
    /\ f_bundle = <<>>
    /\ f_count = 0
    /\ f_sort = ""
    /\ f_out = [total |-> 0, entry |-> <<>>, error |-> "unset"]
    /\ f_pc = "call"

\* search_fhir(resource_type, patient=..., _count=..., _sort=...)
SearchFhir ==
    /\ f_pc = "call"
    /\ f_out' =
          IF f_patient = "none"
          THEN [total |-> 0, entry |-> <<>>, error |-> "none"]
          ELSE IF f_patient = "missing"
          THEN [total |-> 0, entry |-> <<>>, error |-> "not_found"]
          ELSE LET limited == Take(f_bundle, f_count)
                   sorted == IF f_sort = "" THEN limited
                             ELSE SortEntries(limited, f_sort = "-date")
               IN [total |-> Len(sorted), entry |-> sorted, error |-> "none"]
    /\ f_pc' = "returned"
    /\ UNCHANGED <<f_patient, f_bundle, f_count, f_sort>>

\* ------------------------------------------------------- specifications
\* the agent's own start state
AgentIdle == Init /\ skip_arg_optimization = "false"

early_vars == <<vars, channel_vars, server_vars, parser_vars>>
mid_vars == <<classifier_vars, gateway_vars, batch_vars, sandbox_vars>>
final_vars == <<optimiser_vars, reply_vars, search_vars>>
late_vars == <<mid_vars, final_vars>>
all_vars == <<early_vars, late_vars>>

\* start states of the components a specification leaves alone
EarlyIdle == AgentIdle /\ ChannelInit /\ ServerInit /\ ParserIdle
MidIdle == ClassifierIdle /\ GatewayIdle /\ BatchIdle /\ SandboxIdle
FinalIdle == OptimiserIdle /\ ReplyIdle /\ SearchIdle
LateIdle == MidIdle /\ FinalIdle


\* Agent.run
Next ==
    \/ PlanTasks /\ UNCHANGED <<channel_vars, server_vars, parser_vars, late_vars>>
    \/ TaskLoopExit /\ UNCHANGED <<channel_vars, server_vars, parser_vars, late_vars>>
    \/ StartTask /\ UNCHANGED <<channel_vars, server_vars, parser_vars, late_vars>>
    \/ InnerLoopExit /\ UNCHANGED <<channel_vars, server_vars, parser_vars, late_vars>>
    \/ AskForActions /\ UNCHANGED <<channel_vars, server_vars, parser_vars, late_vars>>
    \/ ForExit /\ UNCHANGED <<channel_vars, server_vars, parser_vars, late_vars>>
    \/ ExecuteToolCall /\ UNCHANGED <<channel_vars, server_vars, parser_vars, late_vars>>
    \/ AskIfDone /\ UNCHANGED <<channel_vars, server_vars, parser_vars, late_vars>>
    \/ AfterInner /\ UNCHANGED <<channel_vars, server_vars, parser_vars, late_vars>>
    \/ GenerateAnswer /\ UNCHANGED <<channel_vars, server_vars, parser_vars, late_vars>>

\* the agent runs; the other components stay in their start states
SpecInit == Init /\ ChannelInit /\ ServerInit /\ ParserIdle /\ LateIdle

Spec == SpecInit /\ [][Next]_all_vars

\* the loop is sequential: it always takes its next step
FairSpec == Spec /\ WF_all_vars(Next)

\* api.py: one query streamed over a websocket
ChannelNext ==
    \/ ReceiveMessage /\ UNCHANGED <<vars, server_vars, parser_vars, late_vars>>
    \/ AgentOp /\ UNCHANGED <<vars, server_vars, parser_vars, late_vars>>
    \/ AgentReturn /\ UNCHANGED <<vars, server_vars, parser_vars, late_vars>>
    \/ SendEvent /\ UNCHANGED <<vars, server_vars, parser_vars, late_vars>>
    \/ HandlerResume /\ UNCHANGED <<vars, server_vars, parser_vars, late_vars>>
    \/ ClientClose /\ UNCHANGED <<vars, server_vars, parser_vars, late_vars>>

ChannelSpecInit == AgentIdle /\ ChannelInit /\ ServerInit /\ ParserIdle /\ LateIdle

ChannelSpec == ChannelSpecInit /\ [][ChannelNext]_all_vars

\* a session next to the other clients of the process
ServerNext ==
    \/ SelectModel /\ UNCHANGED <<vars, channel_vars, parser_vars, late_vars>>
    \/ OtherSessionLoad /\ UNCHANGED <<vars, channel_vars, parser_vars, late_vars>>
    \/ StartSession /\ UNCHANGED <<vars, channel_vars, parser_vars, late_vars>>
    \/ AgentLlmCall /\ UNCHANGED <<vars, channel_vars, parser_vars, late_vars>>
    \/ VisionLlmCall /\ UNCHANGED <<vars, channel_vars, parser_vars, late_vars>>
    \/ SessionLoad /\ UNCHANGED <<vars, channel_vars, parser_vars, late_vars>>
    \/ EndSession /\ UNCHANGED <<vars, channel_vars, parser_vars, late_vars>>

ServerSpecInit == AgentIdle /\ ChannelInit /\ ServerInit /\ ParserIdle /\ LateIdle

ServerSpec == ServerSpecInit /\ [][ServerNext]_all_vars

\* the parser applied to a record embedded in free text
ParserNext == ParseReply /\ UNCHANGED <<vars, channel_vars, server_vars, late_vars>>

ParserSpecInit == AgentIdle /\ ChannelInit /\ ServerInit /\ ParserInit /\ LateIdle

ParserSpec == ParserSpecInit /\ [][ParserNext]_all_vars

TypeOK ==
    /\ pc \in {"plan", "outer", "inner", "for", "askdone", "after", "answer", "done", "raised"}
    /\ step_count \in 0..max_steps
    /\ Len(last_actions) <= RingSize

\* the emptiness detector applied to a tool result
ClassifierNext ==
    ClassifyResult
    /\ UNCHANGED <<early_vars, gateway_vars, batch_vars, sandbox_vars,
                   final_vars>>

ClassifierSpecInit ==
    /\ EarlyIdle /\ ClassifierInit /\ GatewayIdle /\ BatchIdle /\ SandboxIdle
    /\ FinalIdle

ClassifierSpec == ClassifierSpecInit /\ [][ClassifierNext]_all_vars

\* one call of the gateway
GatewayNext ==
    \/ ConfigureCall
        /\ UNCHANGED <<early_vars, classifier_vars, batch_vars, sandbox_vars,
                       final_vars>>
    \/ InvokeAttempt
        /\ UNCHANGED <<early_vars, classifier_vars, batch_vars, sandbox_vars,
                       final_vars>>

GatewaySpecInit ==
    /\ EarlyIdle /\ ClassifierIdle /\ GatewayInit /\ BatchIdle /\ SandboxIdle
    /\ FinalIdle

GatewaySpec == GatewaySpecInit /\ [][GatewayNext]_all_vars

\* calls of load_patients_batch
BatchNext ==
    \/ CallBatch
        /\ UNCHANGED <<early_vars, classifier_vars, gateway_vars, sandbox_vars,
                       final_vars>>
    \/ BeginLoad
        /\ UNCHANGED <<early_vars, classifier_vars, gateway_vars, sandbox_vars,
                       final_vars>>
    \/ FinishLoad
        /\ UNCHANGED <<early_vars, classifier_vars, gateway_vars, sandbox_vars,
                       final_vars>>
    \/ ReturnBatch
        /\ UNCHANGED <<early_vars, classifier_vars, gateway_vars, sandbox_vars,
                       final_vars>>
    \/ RaiseBatch
        /\ UNCHANGED <<early_vars, classifier_vars, gateway_vars, sandbox_vars,
                       final_vars>>

BatchSpecInit ==
    /\ EarlyIdle /\ ClassifierIdle /\ GatewayIdle /\ BatchInit /\ SandboxIdle
    /\ FinalIdle

BatchSpec == BatchSpecInit /\ [][BatchNext]_all_vars

\* one run of generate_and_run_analysis
SandboxNext ==
    \/ ExecCode
        /\ UNCHANGED <<early_vars, classifier_vars, gateway_vars, batch_vars,
                       final_vars>>
    \/ RunAnalyze
        /\ UNCHANGED <<early_vars, classifier_vars, gateway_vars, batch_vars,
                       final_vars>>

SandboxSpecInit ==
    /\ EarlyIdle /\ ClassifierIdle /\ GatewayIdle /\ BatchIdle /\ SandboxInit
    /\ FinalIdle

SandboxSpec == SandboxSpecInit /\ [][SandboxNext]_all_vars

\* the arguments of one tool call
OptimiserNext ==
    ChooseArgs /\ UNCHANGED <<early_vars, mid_vars, reply_vars, search_vars>>

OptimiserSpecInit ==
    EarlyIdle /\ MidIdle /\ OptimiserInit /\ ReplyIdle /\ SearchIdle

OptimiserSpec == OptimiserSpecInit /\ [][OptimiserNext]_all_vars

\* one reply of a prompt-JSON model
ReplyNext ==
    \/ ProcessReply
        /\ UNCHANGED <<early_vars, mid_vars, optimiser_vars, search_vars>>
    \/ HandleReply
        /\ UNCHANGED <<early_vars, mid_vars, optimiser_vars, search_vars>>

ReplySpecInit ==
    EarlyIdle /\ MidIdle /\ OptimiserIdle /\ ReplyInit /\ SearchIdle

ReplySpec == ReplySpecInit /\ [][ReplyNext]_all_vars

\* one call of search_fhir
SearchNext ==
    SearchFhir /\ UNCHANGED <<early_vars, mid_vars, optimiser_vars, reply_vars>>

SearchSpecInit ==
    EarlyIdle /\ MidIdle /\ OptimiserIdle /\ ReplyIdle /\ SearchInit

SearchSpec == SearchSpecInit /\ [][SearchNext]_all_vars

\* ----------------------------------------------------------------- claims
\* the guards under which the next step is ask_for_actions, resp. one
\* iteration of the for loop, resp. the pick of a task
AskEnabled ==
    /\ pc = "inner"
    /\ per_task_steps < max_steps_per_task
    /\ ~timed_out
    /\ step_count < max_steps
ExecEnabled == pc = "for" /\ tool_calls # <<>> /\ step_count < max_steps
PickEnabled == pc = "outer" /\ AnyNotDone(tasks) /\ step_count < max_steps
Returned == pc \in {"done", "raised"}

\* C1: Agent.run(query) terminates for every behaviour of the model and of
\* the tools: the task loop always exits and the Answer step is reached.
C1_Terminates == <>Returned

\* C2: no exception crosses the Agent.run boundary: whichever LLM call or
\* tool invocation fails, run returns an answer string instead of raising.
C2_NoExceptionEscapes == pc # "raised"

FourIdentical(ring) ==
    Len(ring) = 4 /\ \A i \in 1..Len(ring) : ring[i] = ring[1]
DispatchEvents ==
    {"invalid_tool", "tool_failed", "retry", "tool_run_empty", "tool_run_data"}
Last(seq) == seq[Len(seq)]
AppendedTo(old, new) ==
    Len(new) = Len(old) + 1 /\ SubSeq(new, 1, Len(old)) = old

\* C3: whenever the ring of the last four action signatures holds four
\* identical entries after a push, the current task is marked done and no
\* tool is dispatched for that action; hence no dispatch ever leaves the ring
\* with four identical entries (the same action four times in a row).
C3_LoopDetection ==
    /\ [](ev \in DispatchEvents => ~FourIdentical(last_actions))
    /\ [][(ExecEnabled /\ FourIdentical(last_actions')) =>
            /\ tasks'[cur].done
            /\ ev' = "loop_detected"
            /\ step_count' = step_count
            /\ per_task_steps' = per_task_steps
            /\ retry_count' = retry_count
            /\ task_outputs' = task_outputs
            /\ task_step_outputs' = task_step_outputs]_vars
C3_Witness ==
    /\ ev = "loop_detected"
    /\ FourIdentical(last_actions)
    /\ tasks[cur].done
    /\ step_count > 0

C5_Monotonic ==
    [][/\ \A i \in 1..Len(tasks) :
              tasks[i].done => (i \in 1..Len(tasks') /\ tasks'[i].done)
       /\ step_count' >= step_count]_vars
\* the validator answered "not done" for a task that loop detection had
\* already marked done
C5_Witness ==
    /\ pc = "inner"
    /\ ev = "loop_detected"
    /\ tasks[cur].done
    /\ step_count > 0

\* C6: a task that exceeds task_timeout_seconds is left not-done, and the
\* loop then advances to another task instead of working on it again.
C6_TimeoutAdvances ==
    [][/\ (pc = "inner" /\ per_task_steps < max_steps_per_task /\ timed_out)
              => tasks' = tasks
       /\ (PickEnabled /\ ev = "timeout" /\ ~tasks[cur].done)
              => cur' # cur]_vars

\* C7: an empty result with retry budget left is appended to neither
\* history; an entry for an empty result is appended only when the budget
\* is exhausted, and then to both histories.
C7_RetrySkipsHistory ==
    [][ExecEnabled =>
        /\ retry_count' # retry_count =>
              (task_outputs' = task_outputs /\ task_step_outputs' = task_step_outputs)
        /\ (task_outputs' # task_outputs /\ Last(task_outputs').kind = "empty") =>
              (retry_count = max_retries_on_no_data /\ retry_count' = retry_count)
        /\ ev' = "tool_run_empty" =>
              /\ AppendedTo(task_outputs, task_outputs')
              /\ AppendedTo(task_step_outputs, task_step_outputs')
              /\ Last(task_outputs').kind = "empty"
              /\ Last(task_step_outputs') = Last(task_outputs')]_vars
\* one empty result was retried and left no entry, the next one was recorded
C7_Witness ==
    /\ ev = "tool_run_empty"
    /\ retry_count = max_retries_on_no_data
    /\ retry_count > 0
    /\ Len(task_step_outputs) = 1
    /\ task_step_outputs[1].kind = "empty"

C9_InvalidToolRecorded ==
    [][(ExecEnabled /\ Head(tool_calls).name \notin TOOLS
           /\ ~FourIdentical(last_actions')) =>
          /\ AppendedTo(task_outputs, task_outputs')
          /\ step_count' = step_count + 1
          /\ per_task_steps' = per_task_steps + 1
          /\ pc' = "for"]_vars

\* C10: a tool that raises never aborts the run: exactly one error string
\* naming the tool and its (optimized) arguments is appended to both
\* histories, both step counters advance and the for loop continues.  The
\* run raises only in the answer step or, before any tool is invoked, at
\* the read of a capability flag the record does not carry (see C35).
C10_ToolErrorRecorded ==
    [][/\ (ExecEnabled /\ ev' = "tool_failed") =>
             LET e == [kind |-> "error",
                       tool |-> Head(tool_calls).name,
                       args |-> Last(last_actions')[2]]
             IN /\ task_outputs' = Append(task_outputs, e)
                /\ task_step_outputs' = Append(task_step_outputs, e)
                /\ step_count' = step_count + 1
                /\ per_task_steps' = per_task_steps + 1
                /\ tasks' = tasks
                /\ pc' = "for"
       /\ pc' = "raised" =>
             \/ pc = "answer"
             \/ pc = "for" /\ skip_arg_optimization = "absent"
                           /\ task_outputs' = task_outputs]_vars
C10_Witness ==
    /\ ev = "tool_failed"
    /\ pc = "for"
    /\ task_step_outputs # <<>>
    /\ Last(task_step_outputs).kind = "error"
    /\ Last(task_outputs) = Last(task_step_outputs)

\* an ask_for_actions step that got an AGENT_ERROR reply
AgentErrorStep == AskEnabled /\ agent_error_count' = agent_error_count + 1
NoDispatch ==
    /\ pc' # "for"
    /\ UNCHANGED <<step_count, per_task_steps, last_actions, task_outputs,
                   task_step_outputs, tool_calls>>

\* C11 (as stated): each agent-error reply increments agent_error_count and
\* dispatches no tool; the task is force-marked done only when the count of
\* consecutive agent errors exceeds max_agent_errors; any other reply resets
\* the count to 0.
C11_DoneWhenExceeded ==
    [][/\ AgentErrorStep =>
            /\ NoDispatch
            /\ pc' = "after" => agent_error_count' > max_agent_errors
       /\ (AskEnabled /\ ~AgentErrorStep) => agent_error_count' = 0]_vars

\* C11 (amended): each agent-error reply increments agent_error_count and
\* dispatches no tool; the task is force-marked done exactly when the count
\* of consecutive agent errors reaches max_agent_errors (the third error in
\* a row); any other reply resets the count to 0.
C11_DoneWhenReached ==
    [][/\ AgentErrorStep =>
            /\ NoDispatch
            /\ agent_error_count' <= max_agent_errors
            /\ IF agent_error_count' = max_agent_errors
               THEN pc' = "after" /\ tasks'[cur].done /\ ev' = "task_done"
               ELSE pc' = "inner" /\ tasks' = tasks
       /\ (AskEnabled /\ ~AgentErrorStep) => agent_error_count' = 0]_vars
C11_Witness ==
    /\ agent_error_count = max_agent_errors
    /\ pc = "after"
    /\ tasks[cur].done
    /\ ev = "task_done"
    /\ step_count = 0

\* C12: when planning yields an empty task list, run goes directly to the
\* Answer step: no task is picked, no action is selected, no tool is
\* dispatched and no validator is asked.
C12_EmptyPlanAnswers ==
    (pc # "plan" /\ tasks = <<>>) =>
        /\ pc \in {"answer", "done", "raised"}
        /\ cur = 0
        /\ step_count = 0
        /\ last_actions = <<>>
        /\ task_outputs = <<>>
        /\ ev \in {"task_list", "summary"}
C12_Witness == tasks = <<>> /\ pc = "done" /\ ev = "summary" /\ ~plan_failed

\* C13: when planning fails, the plan is exactly one task with id 1, done
\* false and the raw query as description, and run goes on with that plan:
\* its task is the one picked next.
C13_FallbackPlan ==
    [][/\ (pc = "plan" /\ plan_failed') =>
            /\ tasks' = <<[id |-> 1, description |-> Query, done |-> FALSE]>>
            /\ pc' = "outer"
       /\ (plan_failed /\ pc = "outer" /\ cur = 0) =>
            /\ cur' = 1
            /\ pc' = "inner"
            /\ ev' = "task_start"]_vars
C13_Witness ==
    /\ plan_failed
    /\ cur = 1
    /\ pc = "for"
    /\ Len(tasks) = 1
    /\ tasks[1].description = Query

GoalEvents == {"analysis_complete", "meta_validation_failed"}

\* C14: the goal validator is consulted only after the inner loop of a
\* task has ended with that task done; when it answers true the task loop
\* exits at once, whatever tasks remain; when it answers false or fails the
\* loop goes on with the remaining tasks.
C14_GoalValidation ==
    [][/\ (ev' \in GoalEvents /\ ev' # ev) => pc = "after" /\ tasks[cur].done
       /\ pc = "after" =>
            /\ pc' \in {"answer", "outer"}
            /\ pc' = "answer" <=> ev' = "analysis_complete"
            /\ pc' = "answer" => tasks[cur].done
            /\ ~tasks[cur].done => ev' = ev
            /\ tasks' = tasks]_vars
C14_Witness ==
    /\ pc = "answer"
    /\ ev = "analysis_complete"
    /\ AnyNotDone(tasks)

ToolDispatched == a_steps' = a_steps + 1 /\ a_last' = "tool"

\* C15: after the cancellation signal of the session (the client has
\* disconnected and the callback knows it), no further tool is dispatched
\* in that session.
C15_NoDispatchAfterCancel ==
    [][(~client_open /\ ~connected /\ h_pc = "await_run") => ~ToolDispatched]_all_vars

\* C16: no mutable state is shared between sessions: no LLM call of the
\* session uses a model another client selected, the agent is not built
\* with one, and no load of the session returns a bundle another session
\* put in the cache.
C16_SessionIsolation ==
    /\ llm_model # OtherModel
    /\ agent_model # OtherModel
    /\ bundle_seen # "other"

StreamedEvents == {"task_start", "tool_execution", "task_complete", "log"}
Before(d, first, then) ==
    \A i, j \in 1..Len(d) : (d[i] \in first /\ d[j] \in then) => i < j

\* C17: the client receives the events of a query in the order of the
\* loop's transitions: every task, tool and log event before the answer
\* event, and the answer event before the complete event.
C17_EventOrder ==
    /\ Before(delivered, StreamedEvents, {"answer"})
    /\ Before(delivered, {"answer"}, {"complete"})

\* the event loop runs a scheduled send_event
SendEventStep == queue # <<>> /\ queue' = Tail(queue)

\* C18: once the client has disconnected, an event the loop gets to send
\* is dropped: the client receives nothing, the callback ends up
\* disconnected, and the failure stays in the coroutine; the agent thread
\* is not touched by it, and whatever the connection's state it can go on
\* with any of its operations or return.
C18_DropsSilently ==
    /\ [][(SendEventStep /\ ~client_open) =>
            /\ delivered' = delivered
            /\ ~connected'
            /\ UNCHANGED <<a_pc, a_steps, a_last, h_pc>>]_all_vars
    /\ [][(a_pc # "raised" /\ a_pc' = "raised") =>
            (a_pc = "run" /\ ~SendEventStep)]_all_vars
    /\ [](a_pc = "run" => ENABLED (AgentReturn /\ a_pc' = "returned"))
    /\ []((a_pc = "run" /\ a_steps < MaxOps) =>
            \A op \in AgentOps : ENABLED (AgentOp /\ a_last' = op))
C18_Witness ==
    /\ ~client_open
    /\ ~connected
    /\ a_pc = "returned"
    /\ a_last = "tool"
    /\ a_steps = MaxOps
    /\ h_pc = "await_run"
    /\ Len(queue) >= 2

BraceFree == \A i \in 1..Len(Expand(p_prefix)) : Expand(p_prefix)[i] # "L"
BraceFreeAfter == \A i \in 1..Len(Expand(p_suffix)) : Expand(p_suffix)[i] # "R"

ReplyText == Embed(p_prefix, p_record, p_suffix)

\* a candidate that parses to an object with a tool_name key
ParsesToToolCall(m) ==
    /\ m # <<>>
    /\ m[1] = "L"
    /\ \E r \in Payloads : m = Serialise(r) \/ m = SerialiseBare(r)
ToolCallOf(m) ==
    CHOOSE r \in Payloads : m = Serialise(r) \/ m = SerialiseBare(r)
FirstParsing(cands) ==
    LET K == {k \in 1..Len(cands) : ParsesToToolCall(cands[k])}
    IN  IF K = {} THEN "None"
        ELSE ToolCallOf(cands[CHOOSE k \in K : \A l \in K : k <= l])

\* the first balanced {...} substring of a text
FirstBalanced(text) ==
    LET i == FirstIn(text, 1, {"L"})
        Depth(j) == Cardinality({k \in i..j : text[k] = "L"})
                      - Cardinality({k \in i..j : text[k] = "R"})
        J == {j \in i..Len(text) : Depth(j) = 0}
    IN  IF i = 0 \/ J = {} THEN <<>>
        ELSE <<SubSeq(text, i, CHOOSE j \in J : \A l \in J : j <= l)>>

\* the substring from the first opening brace to the last closing brace
BraceSpan(text) ==
    LET L == {i \in 1..Len(text) : text[i] = "L"}
        R == {j \in 1..Len(text) : text[j] = "R"}
        i == CHOOSE i \in L : \A k \in L : i <= k
        j == CHOOSE j \in R : \A k \in R : k <= j
    IN  IF L = {} \/ R = {} THEN <<>>
        ELSE IF j < i THEN <<>> ELSE <<SubSeq(text, i, j)>>

FencedCandidates(text) ==
    FenceMatches(text, {"FJ"}) \o FenceMatches(text, Fences)

Classified == e_verdict # "unknown"
EmptyCollections == {"empty_list", "empty_dict"}

\* C22 (as stated): None and the empty list are empty; a mapping is empty
\* iff one of the keys patients, results, conditions is present with an
\* empty collection as value, or total_patients == 0, or count == 0; every
\* other value that is not a string is usable.
C22_EmptyCollectionsOnly ==
    (Classified /\ e_kind # "str") =>
        (e_verdict = "empty" <=>
            \/ e_kind \in {"none", "empty_list"}
            \/ /\ e_kind = "dict"
               /\ \/ e_map.patients \in EmptyCollections
                  \/ e_map.results \in EmptyCollections
                  \/ e_map.conditions \in EmptyCollections
                  \/ e_map.total_patients = "zero"
                  \/ e_map.count = "zero")

\* C22 (amended): None and the empty list are empty; a mapping is empty
\* iff patients or results is present with a falsy value (an empty
\* collection, but also None or 0), or conditions is present with an empty
\* list or mapping, or total_patients == 0, or count == 0; every other
\* value that is not a string is usable.
C22_FalsyValues ==
    (Classified /\ e_kind # "str") =>
        (e_verdict = "empty" <=>
            \/ e_kind \in {"none", "empty_list"}
            \/ /\ e_kind = "dict"
               /\ \/ e_map.patients \in EmptyCollections \cup {"null", "zero"}
                  \/ e_map.results \in EmptyCollections \cup {"null", "zero"}
                  \/ e_map.conditions \in EmptyCollections
                  \/ e_map.total_patients = "zero"
                  \/ e_map.count = "zero")
C22_Witness ==
    /\ e_verdict = "empty"
    /\ e_kind = "dict"
    /\ e_map = [NoMapping EXCEPT !.results = "null"]

\* the words ws occur in str, in this order and next to each other,
\* whatever their case
Says(str, ws) ==
    \E i \in 1..Len(str) :
        /\ i + Len(ws) - 1 <= Len(str)
        /\ \A k \in 1..Len(ws) : str[i + k - 1][1] = ws[k]
SaysOneOf(str, phrases) == \E ws \in phrases : Says(str, ws)
StatedPhrases ==
    { <<"no", "data">>, <<"no", "results">>, <<"not", "found">>, <<"empty">>,
      <<"no", "patients">>, <<"0", "results">>, <<"could", "not", "find">>,
      <<"unable", "to", "find">> }

\* C23 (as stated): a string result is empty iff, whatever the case, it
\* contains one of no data, no results, not found, empty, no patients,
\* 0 results, could not find, unable to find.
C23_EightPhrases ==
    (Classified /\ e_kind = "str") =>
        (e_verdict = "empty" <=> SaysOneOf(e_str, StatedPhrases))

\* C23 (amended): a string result is empty iff, whatever the case, it
\* contains one of no data, no results, not found, empty, no patients,
\* no records, 0 patients, 0 results, could not find, unable to find.
C23_TenPhrases ==
    (Classified /\ e_kind = "str") =>
        (e_verdict = "empty" <=>
            SaysOneOf(e_str, StatedPhrases
                               \cup {<<"no", "records">>, <<"0", "patients">>}))
C23_Witness ==
    /\ e_verdict = "empty"
    /\ e_kind = "str"
    /\ e_str = << <<"ok", "lower">>, <<"no", "upper">>, <<"records", "lower">> >>

\* C24: the capability lookup is total: it never raises, a registered name
\* gets its own record, and every other name gets the conservative default
\* (no native tools, prompt-JSON strategy, tool examples on).
C24_LookupTotal ==
    w_pc # "call" =>
        /\ w_pc \in {"invoke", "returned", "raised"}
        /\ w_model \in {"gpt-oss:20b", "qwen3-vl:8b", "ministral-3:8b",
                        "llama3.1:8b"} => w_cap.name = w_model
        /\ w_model \notin {"gpt-oss:20b", "qwen3-vl:8b", "ministral-3:8b",
                           "llama3.1:8b"} =>
              /\ ~w_cap.native_tools
              /\ w_cap.tool_strategy = "prompt_json"
              /\ w_cap.needs_tool_examples

C24_Witness ==
    /\ w_pc = "invoke"
    /\ w_model = "GPT-OSS:20B"
    /\ w_cap.name = "unknown"

\* C29: with an output schema the call is in structured-output mode and the
\* tools play no part; without one, tools given to a native model are bound
\* and tools given to a prompt-JSON model put the catalogue into the prompt
\* and have the reply's tool call parsed out of its content.
C29_Routing ==
    w_pc # "call" =>
        /\ w_schema =>
              /\ w_mode = "structured"
              /\ ~w_catalogue
              /\ w_response \in {"none", "schema_object"}
        /\ (~w_schema /\ w_tools /\ w_cap.native_tools) =>
              /\ w_mode = "native_tools"
              /\ ~w_catalogue
        /\ (~w_schema /\ w_tools /\ ~w_cap.native_tools) =>
              /\ w_mode = "plain"
              /\ w_catalogue
              /\ w_response # "tool_json"

\* C30: an exception reaches the caller only after the first invocation and
\* max_retries_on_failure retries of it have all failed, and a reply is
\* returned as soon as one invocation succeeds.
C30_RetryBudget ==
    /\ w_pc = "raised" => w_attempts = 1 + w_cap.max_retries_on_failure
    /\ w_pc = "returned" =>
          /\ w_attempts \in 1..(1 + w_cap.max_retries_on_failure)
          /\ w_response # "none"

\* C25: the map load_patients_batch returns has exactly the requested ids as
\* keys, and every id has the bundle of its own file, or the empty bundle
\* when it has no file, whatever the interleaving and with repeated ids.
C25_KeysAndAssociation ==
    b_pc = "returned" =>
        /\ DOMAIN b_out = {b_ids[i] : i \in DOMAIN b_ids}
        /\ \A id \in DOMAIN b_out :
              b_out[id] = IF b_files[id] = "ok" THEN id ELSE "empty"

\* the keys are the requested ids, and an id gets its own bundle or the
\* empty one as long as no other file's name contains it
C25_AssociationOfDistinctNames ==
    b_pc = "returned" =>
        /\ DOMAIN b_out = {b_ids[i] : i \in DOMAIN b_ids}
        /\ \A id \in DOMAIN b_out :
              (b_files[id] = "absent" =>
                  \A f \in {<<"1">>, <<"1", "0">>, <<"0", "1">>} :
                      b_files[f] = "absent" \/ f = <<"1">> \/ id # <<"1">>)
              => b_out[id] = IF b_files[id] = "ok" THEN id ELSE "empty"

\* C26: a patient whose file cannot be read or parsed counts as having no
\* bundle: the batch call does not raise, and it returns the empty bundle
\* for that patient and the results of the others.
C26_BatchTotal ==
    /\ b_pc # "raised"
    /\ b_pc = "returned" =>
          \A id \in DOMAIN b_out : b_files[id] = "bad" => b_out[id] = "empty"

\* C27: the sandbox never raises into the agent loop: a source with a syntax
\* error, a source without analyze and an exception while analyze runs each
\* give a record with status error, and an analyze that ends normally gives
\* status success with its result.
C27_SandboxNeverRaises ==
    /\ s_pc # "raised"
    /\ s_pc = "returned" =>
          /\ s_code.syntax = "bad" => s_out.status = "error"
          /\ (s_code.syntax = "ok" /\ s_code.toplevel = "defines_other")
                => s_out.status = "error"
          /\ (s_locals # {} /\ "analyze" \in s_locals
              /\ (s_code.body = "raises" \/ s_code.uses \in {"open", "helper"}))
                => s_out.status = "error"
          /\ s_out.status \in {"error", "success"}
          /\ s_out.status = "success" <=> s_out.result = "result"
          /\ (s_code.syntax = "ok" /\ s_code.toplevel = "defines_analyze"
              /\ s_code.body = "returns" /\ s_code.uses \in {"nothing", "len"})
                => s_out.status = "success"

C27_Witness ==
    /\ s_pc = "returned"
    /\ s_code.syntax = "ok"
    /\ s_code.toplevel = "defines_analyze"
    /\ s_code.uses = "helper"
    /\ s_out.status = "error"

\* C28: the sandbox globals hold the whole whitelist: the batch primitives
\* that PRIMITIVES_SPEC describes, the resource accessors, the filtering and
\* aggregation helpers, the vision helpers and log_progress.
C28_WhitelistComplete ==
    s_pc # "call" =>
        /\ {"load_patients_batch", "batch_conditions", "batch_observations",
            "batch_medications", "batch_resources"} \subseteq s_globals
        /\ {"get_patients", "load_patient", "search_resources",
            "get_conditions", "get_observations", "get_medications",
            "filter_by_text", "filter_by_value", "count_by_field",
            "group_by_field", "aggregate_numeric", "load_dicom_image",
            "load_ecg_image", "analyze_image_with_llm",
            "log_progress"} \subseteq s_globals

AskedForActions == pc = "inner" /\ ev' \in {"task_done", "agent_error", "tool_calls"}
Dispatched == pc = "for" /\ pc' = "for" /\ ev' \in DispatchEvents

C34_PlanOrder ==
    [][(pc = "outer" /\ pc' = "inner") =>
          /\ cur' \in 1..Len(tasks)
          /\ ~tasks[cur'].done
          /\ \A j \in 1..(cur' - 1) : tasks[j].done]_vars

C34_Witness ==
    /\ pc = "inner"
    /\ ev = "task_start"
    /\ cur = 2
    /\ tasks[1].done

\* C36: step_count never exceeds max_steps, and a tool is invoked only while
\* step_count < max_steps, also when one reply carries several tool calls.
C36_GlobalBound ==
    /\ [](step_count <= max_steps)
    /\ [][(Dispatched \/ step_count' # step_count) =>
            step_count < max_steps /\ step_count' <= step_count + 1]_vars

C36_Witness ==
    /\ pc = "for"
    /\ tool_calls # <<>>
    /\ step_count = max_steps

IsPrefix(old, new) ==
    Len(old) <= Len(new) /\ SubSeq(new, 1, Len(old)) = old

C33_AppendOnly == [][IsPrefix(task_outputs, task_outputs')]_vars

\* an action-selection call whose history did not fit the budget
C33_Trimmed ==
    /\ Len(task_outputs) + Len(task_step_outputs) > ContextBudget
    /\ Len(all_session_outputs) = ContextBudget
    /\ all_session_outputs[1] = Summary

\* C35: for a capability that does not skip the optimisation the dispatched
\* arguments are the optimiser's when its call succeeds and the model's
\* original ones when it fails or the tool is unknown; for a capability that
\* skips it no optimisation call is made and the original arguments are
\* dispatched.  Either way the tool call gets its arguments.
C35_ArgumentOptimisation ==
    o_pc # "loop" =>
        /\ o_pc = "dispatch"
        /\ o_args = IF o_called /\ o_reply \in {"no_args", "args_a", "args_b"}
                    THEN o_reply ELSE o_initial
        /\ o_called => o_tool = "list_patients"

\* C37: for a prompt-JSON model a reply from which the parser extracts no
\* tool call (unparseable text, or a null or empty tool_name) is a reply
\* without tool calls: the task is marked done, no tool is dispatched, and
\* it is not counted as an agent error.
C37_NoToolCallMarksDone ==
    (r_pc \notin {"ask", "reply"} /\ r_name \in {"absent", "null", "empty"}) =>
        /\ r_done
        /\ r_pc = "after"
        /\ r_dispatched = 0
        /\ r_errors = 0

\* the same for every reply whose content does not begin with "AGENT_ERROR:"
C37_UnlessSentinel ==
    (r_pc \notin {"ask", "reply"} /\ r_name \in {"absent", "null", "empty"}
     /\ r_content # "sentinel_text") =>
        /\ r_done
        /\ r_pc = "after"
        /\ r_dispatched = 0
        /\ r_errors = 0

InOrder(a, b, descending) ==
    IF descending THEN a.date >= b.date ELSE a.date <= b.date

\* C39: with _sort and _count the result holds the first _count matching
\* entries in the requested order (for a descending date sort the _count
\* most recent ones), and total is the number of returned entries.
C39_SortThenCount ==
    (f_pc = "returned" /\ f_patient = "found" /\ f_sort # "") =>
        LET out == f_out.entry
            returned == {out[i] : i \in 1..Len(out)}
            all == {f_bundle[i] : i \in 1..Len(f_bundle)}
        IN /\ f_out.total = Len(out)
           /\ Len(out) = IF f_count < Len(f_bundle) THEN f_count
                         ELSE Len(f_bundle)
           /\ Cardinality(returned) = Len(out)
           /\ returned \subseteq all
           /\ \A i \in 1..(Len(out) - 1) :
                 InOrder(out[i], out[i + 1], f_sort = "-date")
           /\ \A a \in returned : \A b \in all \ returned :
                 InOrder(a, b, f_sort = "-date")

\* what holds of the result: the first _count entries of the bundle, sorted
C39_CountThenSort ==
    (f_pc = "returned" /\ f_patient = "found" /\ f_sort # "") =>
        LET out == f_out.entry
            returned == {out[i] : i \in 1..Len(out)}
        IN /\ f_out.total = Len(out)
           /\ returned = {f_bundle[i] : i \in 1..Len(out)}
           /\ \A i \in 1..(Len(out) - 1) :
                 InOrder(out[i], out[i + 1], f_sort = "-date")

====
